---- MODULE Spec2Model ----
(***************************************************************************)
(* A model of nanshe_workflow/data.py: the deletion task graph             *)
(* (io_remove, dask_rm_file, dask_rm_dir, dask_rm_tree, dask_io_remove),   *)
(* DistributedDirectoryStore, zip_dir, concat_dask / dask_load_hdf5 and    *)
(* the two lazy dataset selections.                                        *)
(*                                                                         *)
(* A path is a sequence of components; an absolute path starts with "/".   *)
(* The filesystem fs maps every existing path to its entry.                *)
(***************************************************************************)
EXTENDS Integers, Sequences, FiniteSets, TLC

VARIABLES
    fs,        \* the filesystem: path -> [kind, data]
    tasks,     \* the delayed tasks built so far: a set of [id, deps]
    status,    \* task id -> "pending" | "running" | "removed" | "noop" | "failed"
    nextTmp,   \* the number tempfile.mkdtemp gives its next directory
    scanned,   \* the filesystem as dask_rm_tree scanned it (<<>>: not yet)
    calls,     \* the deletion entry points invoked so far, in order
    ret,       \* what the last store operation returned
    deleted,   \* keys whose last store operation was a successful __delitem__
    written,   \* key -> the value of the last __setitem__ that overwrote data
    backend,   \* "hdf5" | "zarr": the class of the selection being resolved
    selkey,    \* self.key of the selection
    res,       \* what resolving the selection gave
    shape,     \* the shape of the dataset dask_load_hdf5 loads
    chunks,    \* its chunk shape
    grid,      \* the object array of blocks, as concat_dask reduces it
    iter,      \* concat_dask's loop variable i (-1, -2, ...), 0 before the loop
    out,       \* what dask_load_hdf5 returned
    walk,      \* zip_dir: the directories scandir.walk has still to yield
    members    \* zip_dir: the archive's members, in the order written

vars == <<fs, tasks, status, nextTmp, scanned, calls, ret, deleted, written,
          backend, selkey, res, shape, chunks, grid, iter, out, walk, members>>

delVars == <<fs, tasks, status, nextTmp, scanned, calls, ret, deleted, written>>
idxVars == <<backend, selkey, res>>
blkVars == <<shape, chunks, grid, iter, out>>
zipVars == <<walk, members>>

None == "None"

(***************************************************************************)
(* Bounds of the model.                                                    *)
(***************************************************************************)
TreeDepth == 2      \* the depth of the directory trees explored
MaxCalls == 2       \* deletion entry points invoked in one behaviour

(***************************************************************************)
(* os.path and the filesystem calls the module makes.                      *)
(***************************************************************************)
Cwd == <<"/", "data">>
TmpRoot == <<"/", "tmp">>

FileEntry(v) == [kind |-> "file", data |-> v]
DirEntry == [kind |-> "dir", data |-> None]
OtherEntry == [kind |-> "other", data |-> None]

IsAbs(p) == Len(p) > 0 /\ p[1] = "/"

os_path_abspath(p) == IF IsAbs(p) THEN p ELSE Cwd \o p

\* os.path.join(a, b): an absolute b discards a.
os_path_join(a, b) == IF IsAbs(b) THEN b ELSE a \o b

os_path_basename(p) == p[Len(p)]

os_path_exists_always(f, p) == TRUE

os_path_exists(f, p) == p \in DOMAIN f

os_path_isfile(f, p) == p \in DOMAIN f /\ f[p].kind = "file"

os_path_isdir(f, p) == p \in DOMAIN f /\ f[p].kind = "dir"

IsPrefix(d, p) == Len(d) <= Len(p) /\ SubSeq(p, 1, Len(d)) = d

\* The entries scandir.scandir(d) yields.
scandir(f, d) == {p \in DOMAIN f : Len(p) = Len(d) + 1 /\ IsPrefix(d, p)}

os_remove(f, p) == [q \in DOMAIN f \ {p} |-> f[q]]

shutil_rmtree(f, d) == [q \in {q \in DOMAIN f : ~IsPrefix(d, q)} |-> f[q]]

\* os.rename(src, dst): renaming a path to itself does nothing.
os_rename(f, src, dst) ==
    IF src = dst THEN f
    ELSE LET moved == {q \in DOMAIN f : IsPrefix(src, q)}
             to(q) == dst \o SubSeq(q, Len(src) + 1, Len(q))
             kept == {q \in DOMAIN f : ~IsPrefix(src, q) /\ ~IsPrefix(dst, q)}
         IN  [q \in kept \cup {to(m) : m \in moved} |->
                 IF q \in kept THEN f[q]
                 ELSE f[CHOOSE m \in moved : to(m) = q]]

\* tempfile.mkdtemp(prefix=...): a directory that did not exist, under the
\* temporary directory.
mkdtemp_name(prefix, n) == TmpRoot \o <<prefix \o "_" \o ToString(n)>>

(***************************************************************************)
(* io_remove, and the bodies of the delayed functions.  Each gives the     *)
(* filesystem it leaves and the exception it raises (None: it returns).    *)
(***************************************************************************)
io_remove_unchecked(f, name) ==
    IF os_path_isfile(f, name) THEN
        [fs |-> os_remove(f, name), err |-> None, did |-> "removed"]
    ELSE IF os_path_isdir(f, name) THEN
        [fs |-> shutil_rmtree(f, name), err |-> None, did |-> "removed"]
    ELSE [fs |-> f, err |-> "ValueError", did |-> "failed"]

io_remove(f, name) ==
    IF ~os_path_exists(f, name) THEN [fs |-> f, err |-> None, did |-> "noop"]
    ELSE IF os_path_isfile(f, name) THEN
        [fs |-> os_remove(f, name), err |-> None, did |-> "removed"]
    ELSE IF os_path_isdir(f, name) THEN
        [fs |-> shutil_rmtree(f, name), err |-> None, did |-> "removed"]
    ELSE [fs |-> f, err |-> "ValueError", did |-> "failed"]

\* os.remove raises ENOENT on an absent path, which is swallowed (IOError is
\* OSError); on a directory it raises another errno, which is not.
dask_rm_file(f, fname) ==
    IF ~os_path_exists(f, fname) THEN [fs |-> f, err |-> None, did |-> "noop"]
    ELSE IF os_path_isdir(f, fname) THEN
        [fs |-> f, err |-> "OSError", did |-> "failed"]
    ELSE [fs |-> os_remove(f, fname), err |-> None, did |-> "removed"]

dask_rm_dir(f, dname) ==
    IF ~os_path_exists(f, dname) THEN [fs |-> f, err |-> None, did |-> "noop"]
    ELSE IF ~os_path_isdir(f, dname) THEN
        [fs |-> f, err |-> "OSError", did |-> "failed"]
    ELSE [fs |-> shutil_rmtree(f, dname), err |-> None, did |-> "removed"]

(***************************************************************************)
(* dask_rm_tree: the task graph.  A task is [id, deps]; its id is its      *)
(* function and its path.                                                  *)
(***************************************************************************)
TaskId(kind, path) == <<kind, path>>

no_deps(f, dname) == {}

\* The deps list _int_dask_rm_tree(dname) returns: one task per file and one
\* per directory that scandir yields.
rm_tree_deps(f, dname) ==
    {TaskId("rm_file", c) : c \in {c \in scandir(f, dname) : f[c].kind = "file"}}
    \cup
    {TaskId("rm_dir", c) : c \in {c \in scandir(f, dname) : f[c].kind = "dir"}}

RECURSIVE _int_dask_rm_tree(_, _)
_int_dask_rm_tree(f, dname) ==
    UNION {
        IF f[c].kind = "file" THEN
            {[id |-> TaskId("rm_file", c), deps |-> {}]}
        ELSE IF f[c].kind = "dir" THEN
            {[id |-> TaskId("rm_dir", c), deps |-> rm_tree_deps(f, c)]}
            \cup _int_dask_rm_tree(f, c)
        ELSE {}
        : c \in scandir(f, dname)}

dask_rm_tree(f, dirname) ==
    {[id |-> TaskId("rm_dir", dirname), deps |-> rm_tree_deps(f, dirname)]}
    \cup _int_dask_rm_tree(f, dirname)

(***************************************************************************)
(* The execution of delayed tasks: a task starts once every task it takes  *)
(* as an argument has returned, and fails if one of them failed.           *)
(***************************************************************************)
Done(s) == s \in {"removed", "noop"}

TaskBody(f, id) ==
    IF id[1] = "rm_file" THEN dask_rm_file(f, id[2])
    ELSE IF id[1] = "rm_dir" THEN dask_rm_dir(f, id[2])
    ELSE io_remove(f, id[2])

Submit(new) ==
    /\ tasks' = tasks \cup new
    /\ status' = [i \in DOMAIN status \cup {t.id : t \in new} |->
                     IF i \in DOMAIN status THEN status[i] ELSE "pending"]

TaskStart(t) ==
    /\ status[t.id] = "pending"
    /\ \A d \in t.deps : Done(status[d]) \/ status[d] = "failed"
    /\ status' = [status EXCEPT ![t.id] =
                     IF \E d \in t.deps : status[d] = "failed"
                     THEN "failed" ELSE "running"]
    /\ UNCHANGED <<fs, tasks, nextTmp, scanned, calls, ret, deleted, written>>
    /\ UNCHANGED <<idxVars, blkVars, zipVars>>

TaskFinish(t) ==
    /\ status[t.id] = "running"
    /\ LET r == TaskBody(fs, t.id)
       IN  /\ fs' = r.fs
           /\ status' = [status EXCEPT ![t.id] = r.did]
    /\ UNCHANGED <<tasks, nextTmp, scanned, calls, ret, deleted, written>>
    /\ UNCHANGED <<idxVars, blkVars, zipVars>>

(***************************************************************************)
(* Directory trees of bounded depth.                                       *)
(***************************************************************************)
Names == {"a", "b"}

\* The depth left under a subdirectory named n of a directory with `depth`
\* levels under it: the trees nest to the full depth along "a" and one level
\* further along "b".
SubDepth(n, depth) == IF n = "a" THEN depth - 1 ELSE IF depth > 1 THEN 1 ELSE 0

RECURSIVE DirContents(_, _, _)
RECURSIVE EntryOpts(_, _, _)
EntryOpts(p, n, depth) ==
    LET q == p \o <<n>>
    IN  {{}, {[path |-> q, e |-> FileEntry("x")]}}
        \cup (IF SubDepth(n, depth) > 0
              THEN {{[path |-> q, e |-> DirEntry]} \cup s :
                       s \in DirContents(q, Names, SubDepth(n, depth))}
              ELSE {{[path |-> q, e |-> DirEntry]}})

DirContents(p, names, depth) ==
    IF names = {} THEN {{}}
    ELSE LET n == CHOOSE x \in names : TRUE
         IN  {a \cup b : a \in EntryOpts(p, n, depth),
                         b \in DirContents(p, names \ {n}, depth)}

BaseDirs == {<<"/">>, TmpRoot, Cwd}

MkFs(entries) ==
    [p \in BaseDirs \cup {x.path : x \in entries} |->
        IF p \in BaseDirs THEN DirEntry
        ELSE (CHOOSE x \in entries : x.path = p).e]

TreeRoot == Cwd \o <<"r">>

\* A tree under TreeRoot; a special file (a FIFO) may sit beside it.
Trees ==
    {MkFs({[path |-> TreeRoot, e |-> DirEntry]} \cup s \cup o) :
        s \in DirContents(TreeRoot, Names, TreeDepth),
        o \in {{}, {[path |-> TreeRoot \o <<"s">>, e |-> OtherEntry]}}}

(***************************************************************************)
(* Idle values of the variables a specification does not use.              *)
(***************************************************************************)
IdleIdx == backend = None /\ selkey = <<>> /\ res = None
IdleBlk == shape = <<>> /\ chunks = <<>> /\ grid = None /\ iter = 0 /\ out = None
IdleZip == walk = <<>> /\ members = <<>>
IdleGhost == calls = <<>> /\ ret = None /\ deleted = {} /\ written = <<>>

(***************************************************************************)
(* SpecRm: dask_rm_tree(TreeRoot) on a tree, and its tasks' execution.     *)
(***************************************************************************)
InitRm ==
    /\ fs \in Trees
    /\ tasks = {}
    /\ status = <<>>
    /\ nextTmp = 1
    /\ scanned = <<>>
    /\ IdleGhost /\ IdleIdx /\ IdleBlk /\ IdleZip

RmTreeCall ==
    /\ scanned = <<>>
    /\ scanned' = fs
    /\ Submit(dask_rm_tree(fs, os_path_abspath(<<"r">>)))
    /\ UNCHANGED <<fs, nextTmp, calls, ret, deleted, written>>
    /\ UNCHANGED <<idxVars, blkVars, zipVars>>

NextRm ==
    \/ RmTreeCall
    \/ \E t \in tasks : TaskStart(t)
    \/ \E t \in tasks : TaskFinish(t)

SpecRm == InitRm /\ [][NextRm]_vars

\* C1: for every directory d of the scanned tree and every immediate child c
\* of d that is a file or a directory, c's removal task has returned before
\* d's removal task starts, however the independent tasks interleave.
C1_ChildrenBeforeParent ==
    scanned # <<>> =>
        \A d \in {p \in DOMAIN scanned :
                     IsPrefix(TreeRoot, p) /\ scanned[p].kind = "dir"} :
            \A c \in {c \in scandir(scanned, d) :
                         scanned[c].kind \in {"file", "dir"}} :
                LET cid == TaskId(IF scanned[c].kind = "file"
                                  THEN "rm_file" ELSE "rm_dir", c)
                    did == TaskId("rm_dir", d)
                IN  /\ cid \in DOMAIN status /\ did \in DOMAIN status
                    /\ status[did] # "pending" => status[cid] = "removed"
                    /\ status[cid] # "failed" /\ status[did] # "failed"

\* C1's case: a directory's task is running, its subdirectory's and its
\* file's tasks have returned.
C1_Witness ==
    /\ scanned # <<>>
    /\ \E d \in DOMAIN scanned :
          /\ TaskId("rm_dir", d) \in DOMAIN status
          /\ status[TaskId("rm_dir", d)] = "running"
          /\ \E c \in scandir(scanned, d) :
                /\ scanned[c].kind = "dir"
                /\ scandir(scanned, c) # {}
                /\ status[TaskId("rm_dir", c)] = "removed"

(***************************************************************************)
(* dask_io_remove(name): makes the quarantine directory, renames name to   *)
(* os.path.join(tmp_dir, name) if it exists, and builds the delayed        *)
(* io_remove(dask_rm_tree(tmp_dir)).                                       *)
(***************************************************************************)
\* os.path.splitext(b)[0] for the names used here.
os_path_splitext_root(b) ==
    CASE b = "x.zarr" -> "x"
      [] b = "k1.dat" -> "k1"
      [] OTHER -> b

\* The tree handed to dask_rm_tree.
rm_tree_renamed(tmp_dir, name) == os_path_join(tmp_dir, name)

rm_tree_arg(tmp_dir, name) == tmp_dir

dask_io_remove(f, n, name0) ==
    LET name == os_path_abspath(name0)
        prefix == "tmp_nanshe_workflow_"
                  \o os_path_splitext_root(os_path_basename(name)) \o "_"
        tmp_dir == mkdtemp_name(prefix, n)
        f1 == [q \in DOMAIN f \cup {tmp_dir} |->
                  IF q = tmp_dir THEN DirEntry ELSE f[q]]
        f2 == IF os_path_exists(f1, name)
              THEN os_rename(f1, name, os_path_join(tmp_dir, name))
              ELSE f1
        arg == rm_tree_arg(tmp_dir, name)
    IN  IF ~os_path_isdir(f2, arg) THEN
            \* scandir.scandir raises on what is not a directory
            [fs |-> f2, tmp |-> tmp_dir, tasks |-> {}, root |-> <<>>,
             err |-> "OSError"]
        ELSE
            [fs |-> f2, tmp |-> tmp_dir,
             tasks |-> dask_rm_tree(f2, arg)
                       \cup {[id |-> TaskId("io_remove", arg),
                              deps |-> {TaskId("rm_dir", arg)}]},
             root |-> TaskId("io_remove", arg),
             err |-> None]

(***************************************************************************)
(* SpecDel: the two deletion entry points, io_remove(name) and             *)
(* dask_io_remove(name) with its task executed in the background, invoked  *)
(* on one path under its relative and its absolute name.                   *)
(***************************************************************************)
DelPath == Cwd \o <<"x.zarr">>

DelNames == {<<"x.zarr">>, DelPath}

DelTrees ==
    {MkFs(s) : s \in
        { {},
          {[path |-> DelPath, e |-> FileEntry("x")]},
          {[path |-> DelPath, e |-> OtherEntry]},
          {[path |-> DelPath, e |-> DirEntry]},
          {[path |-> DelPath, e |-> DirEntry],
           [path |-> DelPath \o <<"a">>, e |-> FileEntry("x")]} }}

KindOf(f, p) == IF p \in DOMAIN f THEN f[p].kind ELSE "absent"

Quiet == \A i \in DOMAIN status : status[i] \in {"removed", "noop", "failed"}

InitDel ==
    /\ fs \in DelTrees
    /\ tasks = {}
    /\ status = <<>>
    /\ nextTmp = 1
    /\ scanned = <<>>
    /\ IdleGhost /\ IdleIdx /\ IdleBlk /\ IdleZip

IoRemoveCall(name) ==
    /\ Len(calls) < MaxCalls
    /\ LET path == os_path_abspath(name)
           r == io_remove(fs, path)
       IN  /\ fs' = r.fs
           /\ calls' = Append(calls,
                  [ep |-> "io_remove", path |-> path, kind |-> KindOf(fs, path),
                   quiet |-> Quiet, err |-> r.err, tmp |-> <<>>,
                   root |-> <<>>, before |-> fs])
    /\ UNCHANGED <<tasks, status, nextTmp, scanned, ret, deleted, written>>
    /\ UNCHANGED <<idxVars, blkVars, zipVars>>

DaskIoRemoveCall(name) ==
    /\ Len(calls) < MaxCalls
    /\ LET path == os_path_abspath(name)
           r == dask_io_remove(fs, nextTmp, name)
       IN  /\ fs' = r.fs
           /\ nextTmp' = nextTmp + 1
           /\ Submit(r.tasks)
           /\ calls' = Append(calls,
                  [ep |-> "dask_io_remove", path |-> path,
                   kind |-> KindOf(fs, path), quiet |-> Quiet, err |-> r.err,
                   tmp |-> r.tmp, root |-> r.root, before |-> fs])
    /\ UNCHANGED <<scanned, ret, deleted, written>>
    /\ UNCHANGED <<idxVars, blkVars, zipVars>>

NextDel ==
    \/ \E name \in DelNames : IoRemoveCall(name)
    \/ \E name \in DelNames : DaskIoRemoveCall(name)
    \/ \E t \in tasks : TaskStart(t)
    \/ \E t \in tasks : TaskFinish(t)

SpecDel == InitDel /\ [][NextDel]_vars

DaskCalls == {i \in DOMAIN calls : calls[i].ep = "dask_io_remove"}

\* The tasks of the graph a dask_io_remove call returned.
GraphOf(c) == {i \in DOMAIN status : IsPrefix(c.tmp, i[2])}

Completed(c) ==
    c.ep = "io_remove" \/ c.err # None
    \/ status[c.root] \in {"removed", "noop", "failed"}

\* C4: every dask_io_remove call has made one quarantine directory of its
\* own, which did not exist before, by the time it returns, and the directory
\* is there until the graph's dask_rm_dir task removes it; once the returned
\* task has run the directory is gone, exactly one step of the graph removed
\* it, and no step of the graph failed.
C4_QuarantineOnce ==
    /\ Cardinality(DaskCalls) = nextTmp - 1
    /\ \A i \in DaskCalls :
        LET c == calls[i]
        IN  /\ c.err = None
            /\ c.tmp \notin DOMAIN c.before
            /\ \A j \in DaskCalls : j # i => calls[j].tmp # c.tmp
            /\ status[TaskId("rm_dir", c.tmp)] \in {"pending", "running"}
                   => os_path_isdir(fs, c.tmp)
            /\ \A t \in GraphOf(c) : status[t] # "failed"
            /\ status[c.root] \notin {"pending", "running"} =>
                   /\ ~os_path_exists(fs, c.tmp)
                   /\ Cardinality({t \in GraphOf(c) :
                          t[2] = c.tmp /\ status[t] = "removed"}) = 1

\* C4's case: the task a dask_io_remove call returned has run.
C4_Witness ==
    \E i \in DaskCalls :
        /\ status[calls[i].root] = "noop"
        /\ status[TaskId("rm_dir", calls[i].tmp)] = "removed"
        /\ ~os_path_exists(fs, calls[i].tmp)

\* C5: a deletion entry point invoked a second time on the same path, after
\* the first invocation (and its task) finished, finds the path absent,
\* raises nothing and, once it has finished, has changed nothing.  The path
\* is a file, a directory or absent to begin with.
C5_SecondCallFindsAbsent ==
    \A i \in DOMAIN calls :
        (/\ i > 1
         /\ calls[i].ep = calls[i - 1].ep
         /\ calls[i].path = calls[i - 1].path
         /\ calls[i].quiet
         /\ calls[1].kind # "other")
        => /\ calls[i - 1].err = None
           /\ calls[i].err = None
           /\ calls[i].kind = "absent"
           /\ (i = Len(calls) /\ Completed(calls[i])) =>
                  /\ fs = calls[i].before
                  /\ \A t \in DOMAIN status : status[t] # "failed"

\* What does hold of the second call: neither call raises and the second,
\* once finished, has changed nothing.
SecondCallChangesNothing ==
    \A i \in DOMAIN calls :
        (/\ i > 1
         /\ calls[i].ep = calls[i - 1].ep
         /\ calls[i].path = calls[i - 1].path
         /\ calls[i].quiet
         /\ calls[1].kind # "other")
        => /\ calls[i - 1].err = None
           /\ calls[i].err = None
           /\ calls[i].ep = "io_remove" => calls[i].kind = "absent"
           /\ (i = Len(calls) /\ Completed(calls[i])) =>
                  /\ fs = calls[i].before
                  /\ \A t \in DOMAIN status : status[t] # "failed"

(***************************************************************************)
(* DistributedDirectoryStore over the directory StoreRoot.                 *)
(***************************************************************************)
StoreRoot == <<"/", "store">>

Keys == {"k1.dat", "k2"}

Values == {"v1", "v2"}

KeyPath(key) == os_path_join(StoreRoot, <<key>>)

\* zarr.DirectoryStore.__setitem__: the value becomes the content of the
\* key's file, replacing what was at its path.
DirectoryStore_setitem(f, path, value) ==
    [q \in {q \in DOMAIN f : ~IsPrefix(path, q)} \cup {path} |->
        IF q = path THEN FileEntry(value) ELSE f[q]]

\* zarr.DirectoryStore.__getitem__: the content of the key's file, or KeyError.
DirectoryStore_getitem(f, path) ==
    IF os_path_isfile(f, path) THEN [val |-> f[path].data, err |-> None]
    ELSE [val |-> None, err |-> "KeyError"]

\* __delitem__: the filesystem it leaves, the tasks it hands to
\* fire_and_forget, the directories it made and the exception it raises.
store_delitem(f, n, key) ==
    LET path == KeyPath(key)
    IN  IF os_path_exists(f, path) THEN
            LET r == dask_io_remove(f, n, path)
            IN  [fs |-> r.fs, tasks |-> r.tasks, made |-> 1, err |-> r.err]
        ELSE [fs |-> f, tasks |-> {}, made |-> 0, err |-> "KeyError"]

\* __setitem__: the KeyError of __delitem__ is swallowed, any other exception
\* of it leaves before the write.
store_setitem(f, n, key, value) ==
    LET d == store_delitem(f, n, key)
    IN  IF d.err \in {None, "KeyError"} THEN
            [fs |-> DirectoryStore_setitem(d.fs, KeyPath(key), value),
             tasks |-> d.tasks, made |-> d.made, err |-> None]
        ELSE d

StoreTrees ==
    {[q \in {<<"/">>, TmpRoot, StoreRoot} \cup {KeyPath(k) : k \in ks} |->
         IF q \in {<<"/">>, TmpRoot, StoreRoot} THEN DirEntry
         ELSE FileEntry("v1")] : ks \in SUBSET Keys}

InitStore ==
    /\ fs \in StoreTrees
    /\ tasks = {}
    /\ status = <<>>
    /\ nextTmp = 1
    /\ scanned = <<>>
    /\ calls = <<>>
    /\ ret = [op |-> None, key |-> None, val |-> None, err |-> None,
              had |-> FALSE]
    /\ deleted = {}
    /\ written = [k \in Keys |-> None]
    /\ IdleIdx /\ IdleBlk /\ IdleZip

DelItem(key) ==
    /\ nextTmp <= MaxCalls
    /\ LET r == store_delitem(fs, nextTmp, key)
       IN  /\ fs' = r.fs
           /\ Submit(r.tasks)
           /\ nextTmp' = nextTmp + r.made
           /\ ret' = [op |-> "del", key |-> key, val |-> None, err |-> r.err,
                      had |-> KeyPath(key) \in DOMAIN fs]
           /\ deleted' = IF r.err = None THEN deleted \cup {key} ELSE deleted
           /\ written' = IF r.err = None THEN [written EXCEPT ![key] = None]
                         ELSE written
    /\ UNCHANGED <<scanned, calls>>
    /\ UNCHANGED <<idxVars, blkVars, zipVars>>

SetItem(key, value) ==
    /\ nextTmp <= MaxCalls
    /\ LET r == store_setitem(fs, nextTmp, key, value)
           had == KeyPath(key) \in DOMAIN fs
       IN  /\ fs' = r.fs
           /\ Submit(r.tasks)
           /\ nextTmp' = nextTmp + r.made
           /\ ret' = [op |-> "set", key |-> key, val |-> value, err |-> r.err,
                      had |-> had]
           /\ deleted' = deleted \ {key}
           /\ written' = [written EXCEPT ![key] =
                             IF r.err = None /\ had THEN value ELSE None]
    /\ UNCHANGED <<scanned, calls>>
    /\ UNCHANGED <<idxVars, blkVars, zipVars>>

GetItem(key) ==
    /\ LET r == DirectoryStore_getitem(fs, KeyPath(key))
       IN  ret' = [op |-> "get", key |-> key, val |-> r.val, err |-> r.err,
                   had |-> KeyPath(key) \in DOMAIN fs]
    /\ UNCHANGED <<fs, tasks, status, nextTmp, scanned, calls, deleted, written>>
    /\ UNCHANGED <<idxVars, blkVars, zipVars>>

NextStore ==
    \/ \E key \in Keys : DelItem(key)
    \/ \E key \in Keys, value \in Values : SetItem(key, value)
    \/ \E key \in Keys : GetItem(key)
    \/ \E t \in tasks : TaskStart(t)
    \/ \E t \in tasks : TaskFinish(t)

SpecStore == InitStore /\ [][NextStore]_vars

\* C2: once __delitem__(key) has returned for a key that had data, and no
\* __setitem__ of the key has followed, the key's path no longer exists
\* under the store.
C2_DeletedKeyAbsent ==
    \A key \in deleted : ~os_path_exists(fs, KeyPath(key))

\* C3: __setitem__ on a key that has data returns, and from then on (until the
\* key is deleted or set again) the key's file holds the value and every read
\* of the key returns it, wherever the background tasks of the old generation
\* are.
C3_OverwriteThenRead ==
    /\ (ret.op = "set" /\ ret.had) => ret.err = None
    /\ \A key \in Keys :
          written[key] # None =>
              /\ os_path_isfile(fs, KeyPath(key))
              /\ fs[KeyPath(key)].data = written[key]
    /\ (ret.op = "get" /\ written[ret.key] # None) =>
              ret.err = None /\ ret.val = written[ret.key]

\* C3's case: a key was overwritten with a value other than its old one, and
\* it is read while a background task of the old generation has not run.
C3_Witness ==
    /\ ret.op = "get"
    /\ written[ret.key] = "v2"
    /\ ret.val = "v2"
    /\ \E i \in DOMAIN status : status[i] = "pending"
    /\ \E i \in DOMAIN status : status[i] = "running"

\* C6: __delitem__(key) on a key whose path does not exist raises KeyError,
\* makes no quarantine directory, submits no task and leaves the filesystem as
\* it was; __setitem__(key, value) on such a key raises nothing, makes no
\* directory, submits no task and writes the value.
C6_AbsentKey ==
    [][\A key \in Keys :
          KeyPath(key) \notin DOMAIN fs =>
              /\ DelItem(key) =>
                    /\ ret'.err = "KeyError"
                    /\ fs' = fs /\ tasks' = tasks /\ status' = status
                    /\ nextTmp' = nextTmp
              /\ \A value \in Values :
                    SetItem(key, value) =>
                        /\ ret'.err = None
                        /\ fs' = DirectoryStore_setitem(fs, KeyPath(key), value)
                        /\ fs'[KeyPath(key)] = FileEntry(value)
                        /\ tasks' = tasks /\ status' = status
                        /\ nextTmp' = nextTmp]_vars

\* C6's case: __delitem__ was called on a key without data.
C6_Witness ==
    /\ ret.op = "del"
    /\ ~ret.had
    /\ ret.err = "KeyError"
    /\ KeyPath(ret.key) \notin DOMAIN fs

(***************************************************************************)
(* Arrays.  An array is [shape, at]: at maps every index tuple (0-based)   *)
(* of the shape to the element there.                                      *)
(***************************************************************************)
MaxOf(sh) == IF Len(sh) = 0 THEN 0
             ELSE CHOOSE m \in {sh[k] : k \in 1..Len(sh)} :
                      \A k \in 1..Len(sh) : sh[k] <= m

Idx(sh) == {i \in [1..Len(sh) -> 0..(MaxOf(sh) - 1)] :
               \A k \in 1..Len(sh) : i[k] < sh[k]}

SortedSeq(S) == CHOOSE q \in [1..Cardinality(S) -> S] :
                    \A a, b \in 1..Cardinality(S) : a < b => q[a] < q[b]

\* An index specification of one axis: slice(None) is [t |-> "all"], a
\* slice lo:hi, an integer, or a sequence of integers.
All == [t |-> "all"]
Slice(lo, hi) == [t |-> "slice", lo |-> lo, hi |-> hi]
Index(i) == [t |-> "int", i |-> i]
SeqOf(s) == [t |-> "seq", s |-> s]

AxisLen(spec, n) ==
    CASE spec.t = "all" -> n
      [] spec.t = "slice" -> spec.hi - spec.lo
      [] spec.t = "seq" -> Len(spec.s)

AxisAt(spec, j) ==
    CASE spec.t = "all" -> j
      [] spec.t = "slice" -> spec.lo + j
      [] spec.t = "seq" -> spec.s[j + 1]
      [] spec.t = "int" -> spec.i

SeqAxes(key) == {k \in 1..Len(key) : key[k].t = "seq"}

\* arr[key] for a tuple key with at most one entry per axis: an integer drops
\* its axis, the other entries select along theirs; more entries than axes is
\* an IndexError.
Take(arr, key) ==
    IF Len(key) > Len(arr.shape) THEN [err |-> "IndexError", val |-> None]
    ELSE
    LET rank == Len(arr.shape)
        spec(k) == IF k <= Len(key) THEN key[k] ELSE All
        kept == SortedSeq({k \in 1..rank : spec(k).t # "int"})
        pos(k) == CHOOSE m \in 1..Len(kept) : kept[m] = k
        sh == [m \in 1..Len(kept) |-> AxisLen(spec(kept[m]), arr.shape[kept[m]])]
    IN  [err |-> None,
         val |-> [shape |-> sh,
                  at |-> [j \in Idx(sh) |->
                             arr.at[[k \in 1..rank |->
                                 IF spec(k).t = "int" THEN spec(k).i
                                 ELSE AxisAt(spec(k), j[pos(k)])]]]]]

NonDecreasing(s) == \A a \in 1..(Len(s) - 1) : s[a] <= s[a + 1]

\* h5py's dataset[key]: one index list at most, and in non-decreasing order;
\* anything else is a TypeError.
H5Read(ds, key) ==
    IF Cardinality(SeqAxes(key)) > 1 THEN [err |-> "TypeError", val |-> None]
    ELSE IF \E k \in SeqAxes(key) : ~NonDecreasing(key[k].s)
         THEN [err |-> "TypeError", val |-> None]
    ELSE Take(ds, key)

\* zarr's dataset[key]: integers and slices only; a list is a TypeError.
ZarrRead(ds, key) ==
    IF SeqAxes(key) # {} THEN [err |-> "TypeError", val |-> None]
    ELSE Take(ds, key)

(***************************************************************************)
(* LazyHDF5DatasetSelection.__getitem__                                    *)
(***************************************************************************)
Perms(n) == {p \in [1..n -> 1..n] : \A a, b \in 1..n : a # b => p[a] # p[b]}

\* numpy.argsort(each_key): a permutation that sorts each_key; the default
\* sort is not stable, so equal entries may come in either order.
ArgSorts(s) == {p \in Perms(Len(s)) : NonDecreasing([a \in 1..Len(s) |-> s[p[a]]])}

same_permutation(p) == p

\* each_key_rsort: the records (sort[a], a) sorted by their "sort" field, of
\* which the "rsort" field is kept.
inverse_permutation(p) == [m \in 1..Len(p) |-> CHOOSE a \in 1..Len(p) : p[a] = m]

\* each_key[each_key_sort]
sorted_index_list(s, p) == [a \in 1..Len(s) |-> s[p[a]]]

IsBasic(spec) == spec.t \in {"all", "slice", "int"}

\* The except branch: key_sort and key_rsort, given the argsort of each list.
hdf5_key_sort(key, srt) ==
    [k \in 1..Len(key) |->
        IF IsBasic(key[k]) THEN key[k]
        ELSE SeqOf(sorted_index_list(key[k].s, srt[k]))]

hdf5_key_rsort(key, srt) ==
    [k \in 1..Len(key) |->
        IF IsBasic(key[k]) THEN All
        ELSE SeqOf([m \in 1..Len(key[k].s) |->
                       inverse_permutation(srt[k])[m] - 1])]

hdf5_getitem(ds, key, srt) ==
    LET first == H5Read(ds, key)
    IN  IF first.err # "TypeError" THEN
            [err |-> first.err, val |-> first.val, path |-> "direct",
             key_sort |-> <<>>, key_rsort |-> <<>>]
        ELSE
            LET ks == hdf5_key_sort(key, srt)
                kr == hdf5_key_rsort(key, srt)
                r1 == H5Read(ds, ks)
                r2 == IF r1.err # None THEN r1 ELSE Take(r1.val, kr)
            IN  [err |-> r2.err, val |-> r2.val, path |-> "fallback",
                 key_sort |-> ks, key_rsort |-> kr]

(***************************************************************************)
(* LazyZarrDatasetSelection.__getitem__                                    *)
(***************************************************************************)
\* kenjutsu.format.reformat_slices: slice(None) becomes slice(0, n, 1).
reformat_slices(key, sh) ==
    [k \in 1..Len(key) |-> IF key[k].t = "all" THEN Slice(0, sh[k]) ELSE key[k]]

\* kenjutsu.format.split_indices: one key per entry of the index list, with
\* that entry in the list's place.
split_indices(key) ==
    LET k == CHOOSE k \in SeqAxes(key) : TRUE
    IN  [m \in 1..Len(key[k].s) |-> [key EXCEPT ![k] = Index(key[k].s[m])]]

\* numpy.concatenate of the rows, each wrapped in a list.
concatenate_rows(rows) ==
    LET sh == <<Len(rows)>> \o rows[1].shape
    IN  [shape |-> sh,
         at |-> [j \in Idx(sh) |-> rows[j[1] + 1].at[Tail(j)]]]

zarr_getitem(ds, key) ==
    LET first == ZarrRead(ds, key)
    IN  IF first.err # "TypeError" THEN
            [err |-> first.err, val |-> first.val, path |-> "direct",
             key_sort |-> <<>>, key_rsort |-> <<>>]
        ELSE
            LET ref_key == reformat_slices(key, ds.shape)
                num_seqs == Cardinality(SeqAxes(ref_key))
            IN  IF num_seqs > 1 \/ (num_seqs = 1 /\ ref_key[1].t # "seq") THEN
                    [err |-> "ValueError", val |-> None, path |-> "fallback",
                     key_sort |-> <<>>, key_rsort |-> <<>>]
                ELSE
                    LET keys == split_indices(ref_key)
                        rows == [m \in 1..Len(keys) |-> ZarrRead(ds, keys[m]).val]
                    IN  [err |-> None, val |-> concatenate_rows(rows),
                         path |-> "fallback",
                         key_sort |-> <<>>, key_rsort |-> <<>>]

(***************************************************************************)
(* SpecIdx: a selection of a two-axis dataset is made and resolved.        *)
(***************************************************************************)
Dim0 == 3           \* the dataset's extent along its first axis
Dim1 == 2           \* and along its second
MaxLen == 3         \* the longest index list

DsShape == <<Dim0, Dim1>>

\* The dataset: every element is different.
Dataset == [shape |-> DsShape, at |-> [i \in Idx(DsShape) |-> i[1] * Dim1 + i[2]]]

IndexLists(n) == UNION {[1..len -> 0..(n - 1)] : len \in 1..MaxLen}

AxisSpecs(n) ==
    {All, Slice(1, n)} \cup {Index(i) : i \in 0..(n - 1)}
    \cup {SeqOf(s) : s \in IndexLists(n)}

SelKeys == {<<a, b>> : a \in AxisSpecs(Dim0), b \in AxisSpecs(Dim1)}

\* The argsort of every index list of the key (<<1>> in the place of an
\* entry that is not a list).
RECURSIVE ArgSortsUpTo(_, _)
ArgSortsUpTo(key, n) ==
    IF n = 0 THEN {<<>>}
    ELSE {Append(srt, p) :
             srt \in ArgSortsUpTo(key, n - 1),
             p \in IF key[n].t = "seq" THEN ArgSorts(key[n].s) ELSE {<<1>>}}

ArgSortChoices(key) == ArgSortsUpTo(key, Len(key))

Pending == [st |-> "pending"]

InitIdx ==
    /\ backend \in {"hdf5", "zarr"}
    /\ selkey \in SelKeys
    /\ res = Pending
    /\ fs = <<>> /\ tasks = {} /\ status = <<>> /\ nextTmp = 1 /\ scanned = <<>>
    /\ IdleGhost /\ IdleBlk /\ IdleZip

ResolveHDF5 ==
    /\ backend = "hdf5"
    /\ res = Pending
    /\ \E srt \in ArgSortChoices(selkey) :
          res' = [st |-> "done"] @@ hdf5_getitem(Dataset, selkey, srt)
    /\ UNCHANGED <<backend, selkey>>
    /\ UNCHANGED <<delVars, blkVars, zipVars>>

ResolveZarr ==
    /\ backend = "zarr"
    /\ res = Pending
    /\ res' = [st |-> "done"] @@ zarr_getitem(Dataset, selkey)
    /\ UNCHANGED <<backend, selkey>>
    /\ UNCHANGED <<delVars, blkVars, zipVars>>

NextIdx == ResolveHDF5 \/ ResolveZarr

SpecIdx == InitIdx /\ [][NextIdx]_vars

\* selkey carries an index list on axis a and slice(None) on every other axis.
ListOnAxis(a) ==
    /\ selkey[a].t = "seq"
    /\ \A k \in 1..Len(selkey) : k # a => selkey[k] = All

\* The read of the full range by the backend's own selection class.
FullRange ==
    IF backend = "hdf5"
    THEN hdf5_getitem(Dataset, <<All, All>>, <<<<1>>, <<1>>>>).val
    ELSE zarr_getitem(Dataset, <<All, All>>).val

\* The result's i-th entry along axis a is entry P[i] of the full-range read.
EntriesFollow(a) ==
    LET P == selkey[a].s
    IN  /\ res.err = None
        /\ res.val.shape = [FullRange.shape EXCEPT ![a] = Len(P)]
        /\ \A j \in Idx(res.val.shape) :
              res.val.at[j] = FullRange.at[[j EXCEPT ![a] = P[j[a] + 1]]]

\* In the HDF5 fallback, sorted_index_list[inverse_permutation[i]] = index_list[i].
PairInverts(a) ==
    (backend = "hdf5" /\ res.path = "fallback") =>
        LET P == selkey[a].s
            sl == res.key_sort[a].s
            ip == res.key_rsort[a].s
        IN  /\ NonDecreasing(sl)
            /\ \A i \in 1..Len(P) : sl[ip[i] + 1] = P[i]

\* C7 as stated: for both backends, an index list on any one axis, in any
\* order and with repeats, resolves to the entries of the full-range read in
\* the list's order.
C7_AnyAxisBothBackends ==
    res # Pending =>
        \A a \in 1..Len(selkey) :
            ListOnAxis(a) => EntriesFollow(a) /\ PairInverts(a)

\* C7 as amended: the same for the HDF5 selection with the list on any one
\* axis, and for the Zarr selection with the list on the first axis; the Zarr
\* selection with the list on a later axis raises ValueError.
C7_ListResolvesInOrder ==
    res # Pending =>
        \A a \in 1..Len(selkey) :
            ListOnAxis(a) =>
                IF backend = "hdf5" \/ a = 1
                THEN EntriesFollow(a) /\ PairInverts(a)
                ELSE res.err = "ValueError"

\* C7's case: the HDF5 fallback resolved a list on the second axis that is out
\* of order and repeats an index.
C7_Witness ==
    /\ res # Pending
    /\ backend = "hdf5"
    /\ res.path = "fallback"
    /\ res.err = None
    /\ ListOnAxis(2)
    /\ selkey[2].s = <<1, 0, 1>>

\* C8: a selection with index lists on two or more axes fails when resolved,
\* and one with an index list on exactly one axis (slices or integers on the
\* others) resolves, for both backends.
C8_SingleListAxis ==
    res # Pending =>
        /\ Cardinality(SeqAxes(selkey)) >= 2 =>
               res.err \in {"TypeError", "ValueError"}
        /\ Cardinality(SeqAxes(selkey)) = 1 => res.err = None

(***************************************************************************)
(* dask_load_hdf5 and concat_dask.                                         *)
(***************************************************************************)
MaxRank == 2        \* the highest rank of the datasets loaded
MaxDim == 3         \* the largest extent of an axis

\* The source dataset: every element is different.
RECURSIVE Linear(_, _, _)
Linear(i, sh, k) == IF k > Len(sh) THEN 0
                    ELSE i[k] + sh[k] * Linear(i, sh, k + 1)

Source(sh) == [shape |-> sh, at |-> [i \in Idx(sh) |-> Linear(i, sh, 1)]]

\* kenjutsu.blocks.num_blocks: ceil(shape[k] / chunks[k]) blocks per axis.
num_blocks(sh, ch) == [k \in 1..Len(sh) |-> (sh[k] + ch[k] - 1) \div ch[k]]

Min(a, b) == IF a < b THEN a ELSE b

\* kenjutsu.blocks.split_blocks: the slices of block b, the last block of an
\* axis ending where the axis ends.
split_blocks(sh, ch, b) ==
    [k \in 1..Len(sh) |-> Slice(b[k] * ch[k], Min((b[k] + 1) * ch[k], sh[k]))]

\* _read_chunk(fn, dn, idx): fh[dn][idx]
read_chunk(sh, key) == Take(Source(sh), key).val

RECURSIVE SumLen(_, _, _)
SumLen(blocks, ax, n) == IF n = 0 THEN 0
                         ELSE SumLen(blocks, ax, n - 1) + blocks[n].shape[ax]

\* dask.array.concatenate(blocks, axis): the axis counts from the end when
\* negative; the blocks must agree on every other axis.
concatenate(blocks, axis) ==
    LET rank == Len(blocks[1].shape)
        ax == IF axis < 0 THEN rank + axis + 1 ELSE axis + 1
        agree == \A n \in 1..Len(blocks) :
                    /\ Len(blocks[n].shape) = rank
                    /\ \A k \in 1..rank :
                          k # ax => blocks[n].shape[k] = blocks[1].shape[k]
        sh == [blocks[1].shape EXCEPT ![ax] = SumLen(blocks, ax, Len(blocks))]
        blk(x) == CHOOSE n \in 1..Len(blocks) :
                      /\ SumLen(blocks, ax, n - 1) <= x
                      /\ x < SumLen(blocks, ax, n)
    IN  IF ax < 1 \/ ax > rank \/ ~agree THEN
            [shape |-> <<>>, at |-> <<>>, err |-> "ValueError"]
        ELSE
            [shape |-> sh,
             at |-> [j \in Idx(sh) |->
                        blocks[blk(j[ax])].at[
                            [j EXCEPT ![ax] = j[ax] - SumLen(blocks, ax, blk(j[ax]) - 1)]]],
             err |-> None]

\* One pass of concat_dask's outer loop: result2 = result[..., 0], and for
\* every j of n_blocks[:i], result2[j] = concatenate(result[j].tolist(), axis).
concat_cells(result, n_blocks, i, axis) ==
    LET sh == SubSeq(n_blocks, 1, Len(n_blocks) + i)
        last == result.shape[Len(result.shape)]
        cells(j) == [n \in 1..last |-> result.at[j \o <<n - 1>>]]
        bad(j) == \E n \in 1..last : cells(j)[n].err # None
    IN  [shape |-> sh,
         at |-> [j \in Idx(sh) |->
                    IF bad(j) THEN [shape |-> <<>>, at |-> <<>>, err |-> "ValueError"]
                    ELSE concatenate(cells(j), axis)]]

concat_dask_step_last_axis(result, n_blocks, i) ==
    concat_cells(result, n_blocks, i, -1)

concat_dask_step(result, n_blocks, i) == concat_cells(result, n_blocks, i, i)

Shapes == UNION {[1..r -> 1..MaxDim] : r \in 1..MaxRank}

NoGrid == [shape |-> <<>>, at |-> <<>>]

InitBlk ==
    /\ shape \in Shapes
    /\ chunks \in {c \in [1..Len(shape) -> 1..MaxDim] :
                      \A k \in 1..Len(shape) : c[k] <= shape[k]}
    /\ grid = NoGrid
    /\ iter = 0
    /\ out = [st |-> "pending"]
    /\ fs = <<>> /\ tasks = {} /\ status = <<>> /\ nextTmp = 1 /\ scanned = <<>>
    /\ IdleGhost /\ IdleIdx /\ IdleZip

\* dask_load_hdf5 up to its call of concat_dask: the object array of blocks.
LoadBlocks ==
    /\ iter = 0
    /\ LET nb == num_blocks(shape, chunks)
       IN  grid' = [shape |-> nb,
                    at |-> [b \in Idx(nb) |->
                               read_chunk(shape, split_blocks(shape, chunks, b))
                               @@ [err |-> None]]]
    /\ iter' = -1
    /\ UNCHANGED <<shape, chunks, out>>
    /\ UNCHANGED <<delVars, idxVars, zipVars>>

ConcatStep ==
    /\ iter < 0
    /\ -iter <= Len(shape)
    /\ grid' = concat_dask_step(grid, num_blocks(shape, chunks), iter)
    /\ iter' = iter - 1
    /\ UNCHANGED <<shape, chunks, out>>
    /\ UNCHANGED <<delVars, idxVars, zipVars>>

\* result = result[()], returned by concat_dask and by dask_load_hdf5.
ReturnArray ==
    /\ -iter = Len(shape) + 1
    /\ out = [st |-> "pending"]
    /\ out' = [st |-> "done", arr |-> grid.at[<<>>]]
    /\ UNCHANGED <<shape, chunks, grid, iter>>
    /\ UNCHANGED <<delVars, idxVars, zipVars>>

NextBlk == LoadBlocks \/ ConcatStep \/ ReturnArray

SpecBlk == InitBlk /\ [][NextBlk]_vars

\* C9: the array assembled from the block grid equals the source element for
\* element, whatever the shape and the chunk shape.
C9_AssembledEqualsSource ==
    out.st = "done" =>
        /\ out.arr.err = None
        /\ out.arr.shape = shape
        /\ out.arr.at = Source(shape).at
        /\ \A i \in Idx(shape) : out.arr.at[i] = Linear(i, shape, 1)

\* C9's case: a dataset of two axes was assembled, the last block shorter
\* than the chunk on both.
C9_Witness ==
    /\ out.st = "done"
    /\ Len(shape) = 2
    /\ shape[1] % chunks[1] # 0
    /\ shape[2] % chunks[2] # 0
    /\ out.arr.shape = shape

(***************************************************************************)
(* zip_dir(dirname): scandir.walk yields a directory, then walks each of   *)
(* its subdirectories in the order scandir lists them, which is any order. *)
(***************************************************************************)
\* The names in the order Python's sorted() puts them.
NameOrder == <<"a", "b">>

NameRank(n) == CHOOSE r \in 1..Len(NameOrder) : NameOrder[r] = n

\* sorted(fnames)
sorted(names) ==
    CHOOSE q \in [1..Cardinality(names) -> names] :
        \A x, y \in 1..Cardinality(names) :
            x < y => NameRank(q[x]) < NameRank(q[y])

\* os.path.relpath(p, start) for a p under start
os_path_relpath(p, start) == SubSeq(p, Len(start) + 1, Len(p))

\* The members one iteration of the walk writes: the files of the directory
\* in sorted order, each under its path relative to dirname.
zip_dir_members(f, dirname, path) ==
    LET fnames == {os_path_basename(c) :
                      c \in {c \in scandir(f, path) : f[c].kind # "dir"}}
        srt == sorted(fnames)
    IN  [m \in 1..Len(srt) |->
            os_path_relpath(os_path_join(path, <<srt[m]>>), dirname)]

\* The orders in which the walk may go on to the subdirectories.
walk_orders(f, path) ==
    LET dnames == {c \in scandir(f, path) : f[c].kind = "dir"}
    IN  {q \in [1..Cardinality(dnames) -> dnames] :
            \A x, y \in 1..Cardinality(dnames) : x # y => q[x] # q[y]}

ZipTrees ==
    {MkFs({[path |-> TreeRoot, e |-> DirEntry]} \cup s) :
        s \in DirContents(TreeRoot, Names, TreeDepth)}

InitZip ==
    /\ fs \in ZipTrees
    /\ walk = <<os_path_abspath(<<"r">>)>>
    /\ members = <<>>
    /\ ret = None
    /\ tasks = {} /\ status = <<>> /\ nextTmp = 1 /\ scanned = <<>>
    /\ calls = <<>> /\ deleted = {} /\ written = <<>>
    /\ IdleIdx /\ IdleBlk

\* One iteration of "for path, dnames, fnames in scandir.walk(dirname)".
ZipWalk ==
    /\ walk # <<>>
    /\ members' = members \o zip_dir_members(fs, TreeRoot, Head(walk))
    /\ \E order \in walk_orders(fs, Head(walk)) :
          walk' = order \o Tail(walk)
    /\ UNCHANGED <<fs, tasks, status, nextTmp, scanned, calls, ret, deleted, written>>
    /\ UNCHANGED <<idxVars, blkVars>>

\* The archive is closed and zipname returned.
ZipReturn ==
    /\ walk = <<>>
    /\ ret = None
    /\ ret' = "r.zip"
    /\ UNCHANGED <<fs, tasks, status, nextTmp, scanned, calls, deleted, written>>
    /\ UNCHANGED <<idxVars, blkVars, zipVars>>

NextZip == ZipWalk \/ ZipReturn

SpecZip == InitZip /\ [][NextZip]_vars

\* Lexicographic order of relative paths, by the names' order.
RECURSIVE PathLess(_, _)
PathLess(p, q) ==
    IF p = <<>> THEN q # <<>>
    ELSE IF q = <<>> THEN FALSE
    ELSE IF Head(p) = Head(q) THEN PathLess(Tail(p), Tail(q))
    ELSE NameRank(Head(p)) < NameRank(Head(q))

FilesUnder(f, d) ==
    {os_path_relpath(p, d) : p \in {p \in DOMAIN f :
        IsPrefix(d, p) /\ p # d /\ f[p].kind = "file"}}

\* Every file of the tree is a member exactly once.
EveryFileOnce ==
    ret # None =>
        /\ {members[m] : m \in DOMAIN members} = FilesUnder(fs, TreeRoot)
        /\ Len(members) = Cardinality(FilesUnder(fs, TreeRoot))

\* C10: the members zip_dir has written are every file of the tree exactly
\* once, in the lexicographically sorted order of their relative paths.
C10_MembersSorted ==
    ret # None =>
        /\ {members[m] : m \in DOMAIN members} = FilesUnder(fs, TreeRoot)
        /\ Len(members) = Cardinality(FilesUnder(fs, TreeRoot))
        /\ \A x, y \in DOMAIN members :
              x < y => PathLess(members[x], members[y])
====
